---- MODULE Spec2Model ----
(***************************************************************************)
(* Model of the stock analysis engine (src/stock_analyzer.py) and of the   *)
(* web routes that call it (src/app.py).                                   *)
(*                                                                         *)
(* Numbers.  The program computes with IEEE doubles held in pandas series. *)
(* A value is modelled as a record [k, n, d]: k = "num" is the exact       *)
(* rational n/d (d > 0, lowest terms); k = "root" is the square root of a  *)
(* rational and k = "real" a finite real known by its sign only; k = "nan",*)
(* "inf", "ninf" are the IEEE not-a-number and the two infinities.         *)
(* Arithmetic on "num" values is exact, except for exponential smoothing   *)
(* and square roots, whose results are rounded to a fixed grid.           *)
(***************************************************************************)
EXTENDS Integers, Sequences, FiniteSets, TLC

VARIABLES pc, provider, fault, data, df, volatility, risk_metrics,
          signals, signal_strength, recommendation, steps, result, read,
          analyzer, env, local, response, log

vars == <<pc, provider, fault, data, df, volatility, risk_metrics,
          signals, signal_strength, recommendation, steps, result, read,
          analyzer, env, local, response, log>>

\* The module-level analyzer of app.py and the state of a web request: env is
\* what the services outside the program answer, local the local variables of the
\* route, response what it returns, log the calls it has made.
web == <<analyzer, env, local, response, log>>

----------------------------------------------------------------------------
(* Bounds of the model. *)

\* Largest number of entries of a signal mapping handed to calculate_signal_strength.
MaxSignals == 5

\* The provider's series for analyze_stock have at most MaxLen bars, each closing at
\* one of the prices 1..MaxPrice.
MaxLen == 3
MaxPrice == 3

\* Longest frame handed to generate_signals on its own.
MaxFrameLen == 52

\* Indicator values drawn for the crossover and band rules are 1..MaxVal.
MaxVal == 2

\* Values drawn for the threshold rules lie within Eps of a threshold.
Eps == 1

\* Prices of the long series: a flat stretch of at most MaxFlat bars at one of the
\* prices 1..MaxFlatPrice, followed by at most MaxTail bars at any of these prices.
MaxFlat == 34
MaxFlatPrice == 4
MaxTail == 1

\* Number of requests served at the same time.
MaxThreads == 2
MaxFailures == 2
MaxQuery == 4
MaxMatches == 16

\* The rising series: RampLen daily closes RampFirst, RampFirst + 1, ..., each bar
\* reaching at most MaxRange above and below its close.
RampLen == 60
RampFirst == 100
MaxRange == 1

\* The results of exponential smoothing and of square roots are doubles rounded
\* to multiples of 1/Grid, as exact fractions would leave the integer range;
\* MaxRoot is the largest integer whose square stays in it.
Grid == 4096
MaxRoot == 46340

----------------------------------------------------------------------------
(* Exact rationals and IEEE special values. *)

Abs(x) == IF x < 0 THEN -x ELSE x

RECURSIVE GCD(_, _)
GCD(a, b) == IF b = 0 THEN a ELSE GCD(b, a % b)

NaN == [k |-> "nan", n |-> 0, d |-> 1]
Inf == [k |-> "inf", n |-> 0, d |-> 1]
NInf == [k |-> "ninf", n |-> 0, d |-> 1]

\* The rational n/d, d # 0, in lowest terms with a positive denominator.
Rat(n, d) ==
    LET g == GCD(Abs(n), Abs(d))
        s == IF d < 0 THEN -1 ELSE 1
    IN [k |-> "num", n |-> (s * n) \div g, d |-> Abs(d) \div g]

Num(i) == [k |-> "num", n |-> i, d |-> 1]

IsNum(x) == x.k = "num"
IsNaN(x) == x.k = "nan"

\* Python's comparison operators on doubles: every comparison with NaN is False.
Rank(x) == IF x.k = "inf" THEN 1 ELSE IF x.k = "ninf" THEN -1 ELSE 0
\* Numerators of two rationals over their least common denominator.
Over(a, b) == a.n * (b.d \div GCD(a.d, b.d))
FLt(a, b) ==
    /\ ~IsNaN(a)
    /\ ~IsNaN(b)
    /\ IF IsNum(a) /\ IsNum(b) THEN Over(a, b) < Over(b, a) ELSE Rank(a) < Rank(b)
FGt(a, b) == FLt(b, a)
FEq(a, b) ==
    /\ ~IsNaN(a)
    /\ ~IsNaN(b)
    /\ IF IsNum(a) /\ IsNum(b) THEN Over(a, b) = Over(b, a) ELSE Rank(a) = Rank(b)
FLe(a, b) == FLt(a, b) \/ FEq(a, b)
FGe(a, b) == FLe(b, a)

FNeg(a) ==
    IF IsNaN(a) THEN NaN
    ELSE IF a.k = "inf" THEN NInf
    ELSE IF a.k = "ninf" THEN Inf
    ELSE [a EXCEPT !.n = -a.n]

\* Square roots.  A "root" value [k |-> "root", n, d] is the positive real
\* sqrt(n / d) of a positive rational, so that a standard deviation stays exact.
\* A product or quotient that involves a root is a "real" value: a finite real of
\* which only the sign (n = 1 or n = -1) is carried, never the magnitude.
Root(q) ==
    IF ~IsNum(q) THEN q
    ELSE IF q.n = 0 THEN Num(0)
    ELSE [k |-> "root", n |-> q.n, d |-> q.d]
Real(s) == IF s = 0 THEN Num(0) ELSE [k |-> "real", n |-> s, d |-> 1]
IsFinite(x) == x.k \in {"num", "root", "real"}

\* Sign of a value that is not NaN.
SignOf(x) ==
    IF x.k = "inf" THEN 1
    ELSE IF x.k = "ninf" THEN -1
    ELSE IF x.n > 0 THEN 1 ELSE IF x.n < 0 THEN -1 ELSE 0

\* IEEE addition, multiplication and division (numpy: no exception, warnings are
\* off).  Addition is defined on rationals and the special values only.
FAdd(a, b) ==
    IF IsNaN(a) \/ IsNaN(b) THEN NaN
    ELSE IF IsNum(a) /\ IsNum(b)
    THEN Rat(Over(a, b) + Over(b, a), a.d * (b.d \div GCD(a.d, b.d)))
    ELSE IF IsNum(a) THEN b
    ELSE IF IsNum(b) THEN a
    ELSE IF a.k = b.k THEN a ELSE NaN
FSub(a, b) == FAdd(a, FNeg(b))
\* (an/ad) * (bn/bd), reduced crosswise before multiplying.
RatMul(an, ad, bn, bd) ==
    LET g1 == GCD(Abs(an), bd)
        g2 == GCD(Abs(bn), ad)
    IN Rat((an \div g1) * (bn \div g2), (ad \div g2) * (bd \div g1))
FMul(a, b) ==
    IF IsNaN(a) \/ IsNaN(b) THEN NaN
    ELSE IF IsNum(a) /\ IsNum(b) THEN RatMul(a.n, a.d, b.n, b.d)
    ELSE IF IsFinite(a) /\ IsFinite(b) THEN Real(SignOf(a) * SignOf(b))
    ELSE IF SignOf(a) * SignOf(b) = 0 THEN NaN
    ELSE IF SignOf(a) * SignOf(b) > 0 THEN Inf ELSE NInf
FDiv(a, b) ==
    IF IsNaN(a) \/ IsNaN(b) THEN NaN
    ELSE IF IsFinite(a) /\ IsFinite(b)
    THEN IF SignOf(b) = 0
         THEN IF SignOf(a) = 0 THEN NaN ELSE IF SignOf(a) > 0 THEN Inf ELSE NInf
         ELSE IF IsNum(a) /\ IsNum(b)
         THEN RatMul(a.n, a.d, SignOf(b) * b.d, Abs(b.n))
         ELSE Real(SignOf(a) * SignOf(b))
    ELSE IF ~IsFinite(a) /\ ~IsFinite(b) THEN NaN
    ELSE IF IsFinite(a) THEN Num(0)
    ELSE IF SignOf(a) * (IF SignOf(b) < 0 THEN -1 ELSE 1) > 0 THEN Inf ELSE NInf
FAbs(a) ==
    IF IsNaN(a) THEN NaN
    ELSE IF a.k \in {"inf", "ninf"} THEN Inf
    ELSE [a EXCEPT !.n = Abs(a.n)]

\* Rounding of a double, applied to the exponentially weighted columns: a rational
\* that is not a multiple of 1/Grid is rounded to the nearest one.
Fl(x) ==
    IF ~IsNum(x) \/ Grid % x.d = 0 THEN x
    ELSE LET q == x.n \div x.d
             r == x.n % x.d
         IN Rat(q * Grid + (2 * r * Grid + x.d) \div (2 * x.d), Grid)

----------------------------------------------------------------------------
(* Python's None and optional values. *)

\* A mapping-valued optional: None, or a mapping (a dict is a function).
NoneMap == [none |-> TRUE, v |-> <<>>]
NoData == [none |-> TRUE, v |-> [Close |-> <<>>, High |-> <<>>, Low |-> <<>>]]

\* A frame of the provider with the closing prices `close`.  The bars drawn here
\* have no intraday range: high = low = close.
Frame(close) == [none |-> FALSE, v |-> [Close |-> close, High |-> close, Low |-> close]]
SomeMap(m) == [none |-> FALSE, v |-> m]

Signal == {"BUY", "SELL", "HOLD"}

----------------------------------------------------------------------------
(* StockAnalyzer.calculate_signal_strength *)

\* sum(1 for signal in signals.values() if signal == s)
CountOf(m, s) == Cardinality({key \in DOMAIN m : m[key] = s})

\* A variant that awards a tie to BUY (>= in place of >).
calculate_signal_strength_tie_buy(sigs) ==
    IF sigs.none \/ DOMAIN sigs.v = {}
    THEN [strength |-> Num(0), recommendation |-> "NEUTRAL"]
    ELSE LET buy_count == CountOf(sigs.v, "BUY")
             sell_count == CountOf(sigs.v, "SELL")
             total_signals == Cardinality(DOMAIN sigs.v)
         IN IF buy_count >= sell_count
            THEN [strength |-> FMul(Rat(buy_count, total_signals), Num(100)),
                  recommendation |-> "BUY"]
            ELSE [strength |-> FMul(Rat(sell_count, total_signals), Num(100)),
                  recommendation |-> "SELL"]

\* A variant that divides by the number of non-HOLD signals.
calculate_signal_strength_active(sigs) ==
    IF sigs.none \/ DOMAIN sigs.v = {}
    THEN [strength |-> Num(0), recommendation |-> "NEUTRAL"]
    ELSE LET buy_count == CountOf(sigs.v, "BUY")
             sell_count == CountOf(sigs.v, "SELL")
         IN IF buy_count > sell_count
            THEN [strength |-> FMul(Rat(buy_count, buy_count + sell_count), Num(100)),
                  recommendation |-> "BUY"]
            ELSE IF sell_count > buy_count
            THEN [strength |-> FMul(Rat(sell_count, buy_count + sell_count), Num(100)),
                  recommendation |-> "SELL"]
            ELSE [strength |-> Num(50), recommendation |-> "HOLD"]

\* A variant that forgets to divide by the number of signals.
calculate_signal_strength_no_share(sigs) ==
    IF sigs.none \/ DOMAIN sigs.v = {}
    THEN [strength |-> Num(0), recommendation |-> "NEUTRAL"]
    ELSE LET buy_count == CountOf(sigs.v, "BUY")
             sell_count == CountOf(sigs.v, "SELL")
         IN IF buy_count > sell_count
            THEN [strength |-> FMul(Num(buy_count), Num(100)), recommendation |-> "BUY"]
            ELSE IF sell_count > buy_count
            THEN [strength |-> FMul(Num(sell_count), Num(100)), recommendation |-> "SELL"]
            ELSE [strength |-> Num(50), recommendation |-> "HOLD"]

\* `if not signals` is true of None and of the empty dict.
calculate_signal_strength(sigs) ==
    IF sigs.none \/ DOMAIN sigs.v = {}
    THEN [strength |-> Num(0), recommendation |-> "NEUTRAL"]
    ELSE LET buy_count == CountOf(sigs.v, "BUY")
             sell_count == CountOf(sigs.v, "SELL")
             total_signals == Cardinality(DOMAIN sigs.v)
         IN IF buy_count > sell_count
            THEN [strength |-> FMul(Rat(buy_count, total_signals), Num(100)),
                  recommendation |-> "BUY"]
            ELSE IF sell_count > buy_count
            THEN [strength |-> FMul(Rat(sell_count, total_signals), Num(100)),
                  recommendation |-> "SELL"]
            ELSE [strength |-> Num(50), recommendation |-> "HOLD"]

----------------------------------------------------------------------------
(* Windows of the indicators of calculate_technical_indicators.  A rolling   *)
(* or exponentially weighted column of the ta library is NaN at every        *)
(* position before its window is filled (min_periods = window).              *)

SmaShortWindow == 20
SmaLongWindow == 50
EmaFastSpan == 12
EmaSlowSpan == 26
MacdFast == 12
MacdSlow == 26
MacdSign == 9
RsiWindow == 14
BollingerWindow == 20
BollingerDev == 2
StochWindow == 14
StochSmooth == 3

\* First position (counted from 1) at which each column can be defined.
FirstDefined ==
    [SMA_20 |-> SmaShortWindow,
     SMA_50 |-> SmaLongWindow,
     EMA_12 |-> EmaFastSpan,
     EMA_26 |-> EmaSlowSpan,
     MACD |-> MacdSlow + MacdSign - 1,
     MACD_Signal |-> MacdSlow + MacdSign - 1,
     RSI |-> RsiWindow,
     BB_Upper |-> BollingerWindow,
     BB_Lower |-> BollingerWindow,
     BB_Middle |-> BollingerWindow,
     Stoch_K |-> StochWindow,
     Stoch_D |-> StochWindow + StochSmooth - 1]

----------------------------------------------------------------------------
(* The columns of calculate_technical_indicators, computed as the ta library *)
(* computes them with fillna = False.  A column is a sequence of values, one *)
(* for each row of the frame.                                                *)

\* The sequence with the values of f, a function on 1..n.
Column(f) == SubSeq(f, 1, Len(f))

RECURSIVE SumRange(_, _, _)
SumRange(col, a, b) ==
    IF a > b THEN Num(0)
    ELSE IF a = b THEN col[a]
    ELSE FAdd(SumRange(col, a, (a + b) \div 2), SumRange(col, (a + b) \div 2 + 1, b))

\* series.rolling(w, min_periods = w).mean()
RollingMean(col, w) ==
    Column([i \in 1..Len(col) |->
        IF i < w THEN NaN ELSE FDiv(SumRange(col, i - w + 1, i), Num(w))])

\* ta.trend.sma_indicator(close, window)
sma_indicator(close, window) == RollingMean(close, window)

\* series.ewm(alpha = an/ad, adjust = False).mean() before min_periods is applied:
\* y[1] = x[1], y[i] = (1 - alpha) * y[i-1] + alpha * x[i]; leading NaN are skipped.
\* EwmStep is one step of the recurrence from the previous value `last`.
EwmStep(last, x, an, ad) ==
    IF IsNaN(x) THEN last
    ELSE IF IsNaN(last) THEN x
    ELSE Fl(FDiv(FAdd(FMul(Num(ad - an), last), FMul(Num(an), x)), Num(ad)))

\* The values at the positions a..b, after the value `last` at position a - 1.
RECURSIVE EwmFrom(_, _, _, _, _, _)
EwmFrom(col, an, ad, last, a, b) ==
    IF a > b THEN <<>>
    ELSE LET y == EwmStep(last, col[a], an, ad)
         IN <<y>> \o EwmFrom(col, an, ad, y, a + 1, b)

\* The first i values, computed in runs of eight positions.
RECURSIVE EwmRaw(_, _, _, _)
EwmRaw(col, an, ad, i) ==
    IF i = 0 THEN <<>>
    ELSE LET start == ((i - 1) \div 8) * 8
             before == EwmRaw(col, an, ad, start)
         IN before \o EwmFrom(col, an, ad, IF start = 0 THEN NaN ELSE before[start],
                              start + 1, i)

\* Number of observations (values that are not NaN) among the first i.
Observations(col, i) == Cardinality({j \in 1..i : ~IsNaN(col[j])})

\* series.ewm(alpha = an/ad, min_periods = minp, adjust = False).mean()
Ewm(col, an, ad, minp) ==
    LET raw == EwmRaw(col, an, ad, Len(col))
    IN Column([i \in 1..Len(col) |-> IF Observations(col, i) >= minp THEN raw[i] ELSE NaN])

\* ta.trend.ema_indicator(close, window): span = window, alpha = 2 / (window + 1)
ema_indicator(close, window) == Ewm(close, 2, window + 1, window)

ColSub(a, b) == Column([i \in 1..Len(a) |-> Fl(FSub(a[i], b[i]))])

\* ta.trend.macd: the MACD line, EMA(fast) - EMA(slow).
macd(close) == ColSub(ema_indicator(close, MacdFast), ema_indicator(close, MacdSlow))

\* ta.trend.macd_signal: the EMA(sign) of the MACD line.
macd_signal(close) == Ewm(macd(close), 2, MacdSign + 1, MacdSign)

\* ta.trend.macd_diff: the MACD histogram, MACD line - signal line.
macd_diff(close) == ColSub(macd(close), macd_signal(close))

\* ta.momentum.rsi(close, window): Wilder's smoothing (alpha = 1/window) of the
\* gains and of the losses; 100 where the smoothed loss is 0.
UpMove(close) ==
    Column([i \in 1..Len(close) |->
        IF i > 1 /\ FGt(close[i], close[i - 1]) THEN FSub(close[i], close[i - 1]) ELSE Num(0)])
DownMove(close) ==
    Column([i \in 1..Len(close) |->
        IF i > 1 /\ FLt(close[i], close[i - 1]) THEN FSub(close[i - 1], close[i]) ELSE Num(0)])
rsi(close, window) ==
    LET emaup == Ewm(UpMove(close), 1, window, window)
        emadn == Ewm(DownMove(close), 1, window, window)
    IN Column([i \in 1..Len(close) |->
           IF FEq(emadn[i], Num(0)) THEN Num(100)
           ELSE FSub(Num(100), FDiv(Num(100), FAdd(Num(1), FDiv(emaup[i], emadn[i]))))])

\* The largest r in lo..hi with r * r <= n.
RECURSIVE SqrtSearch(_, _, _)
SqrtSearch(n, lo, hi) ==
    IF lo = hi THEN lo
    ELSE LET mid == (lo + hi + 1) \div 2
         IN IF mid * mid <= n THEN SqrtSearch(n, mid, hi) ELSE SqrtSearch(n, lo, mid - 1)
IntSqrt(n) == SqrtSearch(n, 0, IF n < MaxRoot THEN n ELSE MaxRoot)

\* np.sqrt of a rational that is not negative: exact for the square of a rational,
\* and rounded down to a multiple of 1/Grid otherwise.
Sqrt(q) ==
    IF ~IsNum(q) THEN q
    ELSE IF IntSqrt(q.n) * IntSqrt(q.n) = q.n /\ IntSqrt(q.d) * IntSqrt(q.d) = q.d
    THEN Rat(IntSqrt(q.n), IntSqrt(q.d))
    ELSE Rat(IntSqrt((q.n \div q.d) * Grid * Grid + ((q.n % q.d) * Grid * Grid) \div q.d),
             Grid)

\* series.rolling(w, min_periods = w).std(ddof = 0)
RollingStd(col, w) ==
    Column([i \in 1..Len(col) |->
        IF i < w THEN NaN
        ELSE LET mean == FDiv(SumRange(col, i - w + 1, i), Num(w))
                 sq == [j \in 1..Len(col) |-> FMul(FSub(col[j], mean), FSub(col[j], mean))]
             IN Sqrt(FDiv(SumRange(sq, i - w + 1, i), Num(w)))])

\* ta.volatility.bollinger_mavg / bollinger_hband / bollinger_lband
bollinger_mavg(close) == RollingMean(close, BollingerWindow)
bollinger_hband(close) ==
    LET mavg == bollinger_mavg(close)
        mstd == RollingStd(close, BollingerWindow)
    IN Column([i \in 1..Len(close) |-> FAdd(mavg[i], FMul(Num(BollingerDev), mstd[i]))])
bollinger_lband(close) ==
    LET mavg == bollinger_mavg(close)
        mstd == RollingStd(close, BollingerWindow)
    IN Column([i \in 1..Len(close) |-> FSub(mavg[i], FMul(Num(BollingerDev), mstd[i]))])

\* ta.momentum.stoch: %K = 100 * (close - lowest low) / (highest high - lowest low)
\* over the window; 0/0, that is NaN, where the window has no range.
WindowMin(col, a, b) == CHOOSE x \in {col[j] : j \in a..b} : \A j \in a..b : FLe(x, col[j])
WindowMax(col, a, b) == CHOOSE x \in {col[j] : j \in a..b} : \A j \in a..b : FGe(x, col[j])
stoch(high, low, close) ==
    Column([i \in 1..Len(close) |->
        IF i < StochWindow THEN NaN
        ELSE LET smin == WindowMin(low, i - StochWindow + 1, i)
                 smax == WindowMax(high, i - StochWindow + 1, i)
             IN FMul(Num(100), FDiv(FSub(close[i], smin), FSub(smax, smin)))])

\* ta.momentum.stoch_signal: %D, the rolling mean of %K.
stoch_signal(high, low, close) == RollingMean(stoch(high, low, close), StochSmooth)

\* Lines 37-40.
MovingAverageCols(close) ==
    [SMA_20 |-> sma_indicator(close, SmaShortWindow),
     SMA_50 |-> sma_indicator(close, SmaLongWindow),
     EMA_12 |-> ema_indicator(close, EmaFastSpan),
     EMA_26 |-> ema_indicator(close, EmaSlowSpan)]

\* Lines 43-44: the 'MACD' column is macd_diff, the histogram.
MacdCols(close) ==
    [MACD |-> macd_diff(close), MACD_Signal |-> macd_signal(close)]

\* Lines 47-59, without Volume_SMA, which nothing reads.
OscillatorCols(v) ==
    [RSI |-> rsi(v.Close, RsiWindow),
     BB_Upper |-> bollinger_hband(v.Close),
     BB_Lower |-> bollinger_lband(v.Close),
     BB_Middle |-> bollinger_mavg(v.Close),
     Stoch_K |-> stoch(v.High, v.Low, v.Close),
     Stoch_D |-> stoch_signal(v.High, v.Low, v.Close)]

\* calculate_technical_indicators(data): None for a missing or empty frame, else a
\* copy of the frame with the indicator columns added.
calculate_technical_indicators(d) ==
    IF d.none \/ Len(d.v.Close) = 0
    THEN [none |-> TRUE, n |-> 0, cols |-> <<>>]
    ELSE [none |-> FALSE,
          n |-> Len(d.v.Close),
          cols |-> [Close |-> d.v.Close]
                       @@ MovingAverageCols(d.v.Close)
                       @@ MacdCols(d.v.Close)
                       @@ OscillatorCols(d.v)]

----------------------------------------------------------------------------
(* StockAnalyzer.calculate_volatility and calculate_risk_metrics *)

\* StockAnalyzer(): the fields of an instance after __init__.
StockAnalyzer == [risk_free_rate |-> Rat(2, 100)]

\* self.risk_free_rate, and the trading days of a year.
risk_free_rate == analyzer.risk_free_rate
TradingDays == 252

\* data['Close'].pct_change().dropna(): close[i] / close[i-1] - 1 for i = 2..n.
Returns(close) ==
    Column([i \in 1..(IF Len(close) = 0 THEN 0 ELSE Len(close) - 1) |->
        FSub(FDiv(close[i + 1], close[i]), Num(1))])

\* Series.mean(): NaN for an empty series.
Mean(s) == IF Len(s) = 0 THEN NaN ELSE FDiv(SumRange(s, 1, Len(s)), Num(Len(s)))

\* Series.std(): the sample standard deviation (ddof = 1), NaN below two values.
Std(s) ==
    IF Len(s) < 2 THEN NaN
    ELSE LET sq == Column([i \in 1..Len(s) |->
                       FMul(FSub(s[i], Mean(s)), FSub(s[i], Mean(s)))])
         IN Root(FDiv(SumRange(sq, 1, Len(s)), Num(Len(s) - 1)))

\* Series.min(): NaN for an empty series.
MinOf(s) ==
    IF Len(s) = 0 THEN NaN
    ELSE CHOOSE x \in {s[i] : i \in 1..Len(s)} : \A i \in 1..Len(s) : FLe(x, s[i])

\* (data['Close'] / data['Close'].expanding().max() - 1).min()
Drawdowns(close) ==
    Column([i \in 1..Len(close) |->
        FSub(FDiv(close[i], WindowMax(close, 1, i)), Num(1))])
MaxDrawdown(close) == MinOf(Drawdowns(close))

\* Series.quantile(q), q = qn/qd, with linear interpolation.
Quantile(s, qn, qd) ==
    IF Len(s) = 0 THEN NaN
    ELSE LET sorted == SortSeq(s, LAMBDA x, y : FLt(x, y))
             lo == ((Len(s) - 1) * qn) \div qd
             frac == Rat((Len(s) - 1) * qn - lo * qd, qd)
         IN IF frac.n = 0 THEN sorted[lo + 1]
            ELSE FAdd(sorted[lo + 1], FMul(frac, FSub(sorted[lo + 2], sorted[lo + 1])))

\* calculate_volatility(data): None for a missing or empty frame.
calculate_volatility(d) ==
    IF d.none \/ Len(d.v.Close) = 0 THEN [none |-> TRUE]
    ELSE LET returns == Returns(d.v.Close)
             var == Quantile(returns, 5, 100)
         IN [none |-> FALSE,
             daily_volatility |-> Std(returns),
             annualized_volatility |-> FMul(Std(returns), Root(Num(TradingDays))),
             max_drawdown |-> MaxDrawdown(d.v.Close),
             var_95 |-> var,
             cvar_95 |-> Mean(SelectSeq(returns, LAMBDA x : FLe(x, var)))]

\* calculate_risk_metrics(data): None for a missing or empty frame.
calculate_risk_metrics(d) ==
    IF d.none \/ Len(d.v.Close) = 0 THEN [none |-> TRUE]
    ELSE LET close == d.v.Close
             returns == Returns(close)
             daily_rate == FDiv(risk_free_rate, Num(TradingDays))
             excess_returns == Column([i \in 1..Len(returns) |-> FSub(returns[i], daily_rate)])
             negative == SelectSeq(returns, LAMBDA x : FLt(x, Num(0)))
         IN [none |-> FALSE,
             sharpe_ratio |->
                 FMul(FDiv(Mean(excess_returns), Std(returns)), Root(Num(TradingDays))),
             sortino_ratio |->
                 FMul(FDiv(Mean(excess_returns), Std(negative)), Root(Num(TradingDays))),
             calmar_ratio |->
                 FDiv(FMul(Mean(returns), Num(TradingDays)), FAbs(MaxDrawdown(close))),
             total_return |->
                 FMul(FSub(FDiv(close[Len(close)], close[1]), Num(1)), Num(100))]

----------------------------------------------------------------------------
(* StockAnalyzer.generate_signals                                            *)
(*                                                                           *)
(* A column of the frame is a sequence of values; generate_signals reads the *)
(* last row (iloc[-1]) and, in the two crossover rules, the row before it    *)
(* (iloc[-2]).  Python evaluates `a and b` left to right and skips b when a  *)
(* is False, so iloc[-2] is reached only when the comparison of the last row *)
(* is True.  iloc[-2] on a column of one row raises IndexError.              *)

HasPrev(col) == Len(col) >= 2
Last(col) == col[Len(col)]
Prev(col) == col[Len(col) - 1]

\* Thresholds of the RSI and Stochastic rules.
RsiOversold == 30
RsiOverbought == 70
StochOversold == 20
StochOverbought == 80

\* A crossover rule that compares the previous row first.
MA_Crossover_prev_first(sma20, sma50) ==
    IF ~HasPrev(sma20) THEN "IndexError"
    ELSE IF FLe(Prev(sma20), Prev(sma50)) /\ FGt(Last(sma20), Last(sma50)) THEN "BUY"
    ELSE IF FGe(Prev(sma20), Prev(sma50)) /\ FLt(Last(sma20), Last(sma50)) THEN "SELL"
    ELSE "HOLD"

\* A crossover rule that takes an undefined previous row for a crossing.
MA_Crossover_nan_crosses(sma20, sma50) ==
    IF FGt(Last(sma20), Last(sma50))
    THEN IF ~HasPrev(sma20) THEN "IndexError"
         ELSE IF ~FGt(Prev(sma20), Prev(sma50)) THEN "BUY" ELSE "HOLD"
    ELSE IF FLt(Last(sma20), Last(sma50))
    THEN IF ~HasPrev(sma20) THEN "IndexError"
         ELSE IF ~FLt(Prev(sma20), Prev(sma50)) THEN "SELL" ELSE "HOLD"
    ELSE "HOLD"

\* Lines 105-112: the moving average crossover.
MA_Crossover(sma20, sma50) ==
    IF FGt(Last(sma20), Last(sma50))
    THEN IF ~HasPrev(sma20) THEN "IndexError"
         ELSE IF FLe(Prev(sma20), Prev(sma50)) THEN "BUY" ELSE "HOLD"
    ELSE IF FLt(Last(sma20), Last(sma50))
    THEN IF ~HasPrev(sma20) THEN "IndexError"
         ELSE IF FGe(Prev(sma20), Prev(sma50)) THEN "SELL" ELSE "HOLD"
    ELSE "HOLD"

\* A MACD rule with strict comparisons on the previous row.
MACD_rule_strict(macd_col, signal_col) ==
    IF FGt(Last(macd_col), Last(signal_col))
    THEN IF ~HasPrev(macd_col) THEN "IndexError"
         ELSE IF FLt(Prev(macd_col), Prev(signal_col)) THEN "BUY" ELSE "HOLD"
    ELSE IF FLt(Last(macd_col), Last(signal_col))
    THEN IF ~HasPrev(macd_col) THEN "IndexError"
         ELSE IF FGt(Prev(macd_col), Prev(signal_col)) THEN "SELL" ELSE "HOLD"
    ELSE "HOLD"

\* Lines 115-122: the MACD crossover.
MACD_rule(macd_col, signal_col) ==
    IF FGt(Last(macd_col), Last(signal_col))
    THEN IF ~HasPrev(macd_col) THEN "IndexError"
         ELSE IF FLe(Prev(macd_col), Prev(signal_col)) THEN "BUY" ELSE "HOLD"
    ELSE IF FLt(Last(macd_col), Last(signal_col))
    THEN IF ~HasPrev(macd_col) THEN "IndexError"
         ELSE IF FGe(Prev(macd_col), Prev(signal_col)) THEN "SELL" ELSE "HOLD"
    ELSE "HOLD"

\* Lines 125-131.
RSI_rule(rsi_col) ==
    LET rsi_current == Last(rsi_col)
    IN IF FLt(rsi_current, Num(RsiOversold)) THEN "BUY"
       ELSE IF FGt(rsi_current, Num(RsiOverbought)) THEN "SELL"
       ELSE "HOLD"

\* A variant that tests the upper band first.
Bollinger_rule_upper_first(close, upper, lower) ==
    LET close_current == Last(close)
        bb_upper == Last(upper)
        bb_lower == Last(lower)
    IN IF FGe(close_current, bb_upper) THEN "SELL"
       ELSE IF FLe(close_current, bb_lower) THEN "BUY"
       ELSE "HOLD"

\* Lines 134-143.
Bollinger_rule(close, upper, lower) ==
    LET close_current == Last(close)
        bb_upper == Last(upper)
        bb_lower == Last(lower)
    IN IF FLe(close_current, bb_lower) THEN "BUY"
       ELSE IF FGe(close_current, bb_upper) THEN "SELL"
       ELSE "HOLD"

\* Lines 146-154.
Stochastic_rule(k, d) ==
    LET stoch_k == Last(k)
        stoch_d == Last(d)
    IN IF FLt(stoch_k, Num(StochOversold)) /\ FLt(stoch_d, Num(StochOversold)) THEN "BUY"
       ELSE IF FGt(stoch_k, Num(StochOverbought)) /\ FGt(stoch_d, Num(StochOverbought))
       THEN "SELL"
       ELSE "HOLD"

RuleNames == {"MA_Crossover", "MACD", "RSI", "Bollinger_Bands", "Stochastic"}

\* The five rules on the columns c of a frame, in the order of the code.
RuleResults(c) ==
    [MA_Crossover |-> MA_Crossover(c.SMA_20, c.SMA_50),
     MACD |-> MACD_rule(c.MACD, c.MACD_Signal),
     RSI |-> RSI_rule(c.RSI),
     Bollinger_Bands |-> Bollinger_rule(c.Close, c.BB_Upper, c.BB_Lower),
     Stochastic |-> Stochastic_rule(c.Stoch_K, c.Stoch_D)]

\* generate_signals(data): None for a missing or empty frame; an exception of a
\* rule leaves the function; else the mapping of the five rules.
generate_signals(frame) ==
    IF frame.none \/ frame.n = 0
    THEN [raised |-> FALSE, none |-> TRUE, v |-> <<>>]
    ELSE IF \E r \in RuleNames : RuleResults(frame.cols)[r] = "IndexError"
    THEN [raised |-> TRUE, none |-> TRUE, v |-> <<>>]
    ELSE [raised |-> FALSE, none |-> FALSE, v |-> RuleResults(frame.cols)]

----------------------------------------------------------------------------
(* Values of variables a specification does not use, and of locals not yet bound. *)

Unset == [k |-> "unset", n |-> 0, d |-> 1]
NoProvider == [kind |-> "unused", Close |-> <<>>]
NoFrame == [none |-> TRUE, n |-> 0, cols |-> <<>>]
NoMetrics == [none |-> TRUE]
NoResult == [kind |-> "none"]
NoEnv == [kind |-> "unused"]
NoLocal == [kind |-> "unused"]
NoResponse == [kind |-> "none"]
\* No web request is in progress; the analyzer is as constructed at line 19 of app.py.
NoRequest ==
    /\ analyzer = StockAnalyzer
    /\ env = NoEnv
    /\ local = NoLocal
    /\ response = NoResponse
    /\ log = <<>>
NoRead == [rule |-> "none"]

----------------------------------------------------------------------------
(* Spec: StockAnalyzer.analyze_stock, one step for each call it makes.       *)
(*                                                                           *)
(* provider is what yfinance does for the request: history() raises, returns *)
(* no frame, or returns a frame of 0..MaxLen bars.  fault names the step     *)
(* whose library calls raise for this request ("none": no call raises);      *)
(* analyze_stock has no try/except, so an exception of a step leaves it.     *)
(* steps lists the computations that have run.                               *)

ProviderFrames ==
    UNION {[1..k -> {Num(x) : x \in 1..MaxPrice}] : k \in 0..MaxLen}
ProviderOutcomes ==
    {[kind |-> "raises", Close |-> <<>>], [kind |-> "none", Close |-> <<>>]}
        \cup {[kind |-> "frame", Close |-> s] : s \in ProviderFrames}
FaultSteps == {"indicators", "volatility", "risk_metrics", "signals"}

\* A get_stock_data that does not look at data.empty.
get_stock_data_no_empty_check(p) ==
    IF p.kind \in {"raises", "none"}
    THEN [data |-> NoData, error |-> "Error fetching data"]
    ELSE [data |-> Frame(p.Close), error |-> "None"]

\* get_stock_data: (None, message) when history() raises, when data.empty raises
\* on a missing frame (both caught at line 26) and when the frame is empty.
get_stock_data(p) ==
    IF p.kind \in {"raises", "none"}
    THEN [data |-> NoData, error |-> "Error fetching data"]
    ELSE IF Len(p.Close) = 0
    THEN [data |-> NoData, error |-> "No data found"]
    ELSE [data |-> Frame(p.Close), error |-> "None"]

\* round(x, digits) of Python: to the nearest multiple of 10^-digits, ties to even.
Pow10(k) == IF k = 0 THEN 1 ELSE IF k = 1 THEN 10 ELSE 100
Round(x, digits) ==
    IF ~IsNum(x) THEN x
    ELSE LET scaled == x.n * Pow10(digits)
             q == scaled \div x.d
             r == scaled % x.d
             up == 2 * r > x.d \/ (2 * r = x.d /\ q % 2 = 1)
         IN Rat(IF up THEN q + 1 ELSE q, Pow10(digits))

Init ==
    /\ pc = "start"
    /\ provider \in ProviderOutcomes
    /\ fault \in {"none"} \cup FaultSteps
    /\ data = NoData
    /\ df = NoFrame
    /\ volatility = NoMetrics
    /\ risk_metrics = NoMetrics
    /\ signals = NoneMap
    /\ signal_strength = Unset
    /\ recommendation = "unset"
    /\ steps = <<>>
    /\ result = NoResult
    /\ read = NoRead
    /\ NoRequest

\* An exception leaves analyze_stock: nothing is returned.
Raise(exception) ==
    /\ pc' = "raised"
    /\ result' = [kind |-> "raised", exception |-> exception]

\* Whether the library calls of `step` raise on frame d: a missing or empty frame
\* returns None before any call is made.
Fails(step, d) == fault = step /\ ~d.none /\ Len(d.v.Close) > 0

\* Lines 184-186.
Fetch ==
    /\ pc = "start"
    /\ IF get_stock_data(provider).error # "None"
       THEN /\ result' = [kind |-> "error", error |-> get_stock_data(provider).error]
            /\ pc' = "returned"
            /\ UNCHANGED data
       ELSE /\ data' = get_stock_data(provider).data
            /\ pc' = "indicators"
            /\ UNCHANGED result
    /\ UNCHANGED <<provider, fault, df, volatility, risk_metrics, signals,
                   signal_strength, recommendation, steps, read>>
    /\ UNCHANGED web

\* Line 189.
Indicators ==
    /\ pc = "indicators"
    /\ IF Fails("indicators", data)
       THEN Raise("LibraryError") /\ UNCHANGED <<df, steps>>
       ELSE /\ df' = calculate_technical_indicators(data)
            /\ steps' = Append(steps, "indicators")
            /\ pc' = "volatility"
            /\ UNCHANGED result
    /\ UNCHANGED <<provider, fault, data, volatility, risk_metrics, signals,
                   signal_strength, recommendation, read>>
    /\ UNCHANGED web

\* Line 192.
Volatility ==
    /\ pc = "volatility"
    /\ IF Fails("volatility", data)
       THEN Raise("LibraryError") /\ UNCHANGED <<volatility, steps>>
       ELSE /\ volatility' = calculate_volatility(data)
            /\ steps' = Append(steps, "volatility")
            /\ pc' = "risk_metrics"
            /\ UNCHANGED result
    /\ UNCHANGED <<provider, fault, data, df, risk_metrics, signals,
                   signal_strength, recommendation, read>>
    /\ UNCHANGED web

\* Line 193.
RiskMetrics ==
    /\ pc = "risk_metrics"
    /\ IF Fails("risk_metrics", data)
       THEN Raise("LibraryError") /\ UNCHANGED <<risk_metrics, steps>>
       ELSE /\ risk_metrics' = calculate_risk_metrics(data)
            /\ steps' = Append(steps, "risk_metrics")
            /\ pc' = "signals"
            /\ UNCHANGED result
    /\ UNCHANGED <<provider, fault, data, df, volatility, signals,
                   signal_strength, recommendation, read>>
    /\ UNCHANGED web

\* Line 194.
Signals ==
    /\ pc = "signals"
    /\ IF Fails("signals", data)
       THEN Raise("LibraryError") /\ UNCHANGED <<signals, steps>>
       ELSE IF generate_signals(df).raised
       THEN Raise("IndexError") /\ UNCHANGED <<signals, steps>>
       ELSE /\ signals' = [none |-> generate_signals(df).none, v |-> generate_signals(df).v]
            /\ steps' = Append(steps, "signals")
            /\ pc' = "call_strength"
            /\ UNCHANGED result
    /\ UNCHANGED <<provider, fault, data, df, volatility, risk_metrics,
                   signal_strength, recommendation, read>>
    /\ UNCHANGED web

\* Lines 198-215: the record analyze_stock returns for a frame of two or more rows.
analysis_result(d, vol, risk, sig, strength, rec) ==
    LET close == d.v.Close
        current_price == close[Len(close)]
        price_change == FSub(close[Len(close)], close[Len(close) - 1])
        price_change_pct == FMul(FDiv(price_change, close[Len(close) - 1]), Num(100))
    IN [kind |-> "analysis",
        current_price |-> Round(current_price, 2),
        price_change |-> Round(price_change, 2),
        price_change_pct |-> Round(price_change_pct, 2),
        signals |-> sig,
        signal_strength |-> Round(strength, 1),
        recommendation |-> rec,
        volatility |-> vol,
        risk_metrics |-> risk,
        data_points |-> Len(close)]

\* Lines 198-217: data['Close'].iloc[-1] raises IndexError on a frame without rows
\* and data['Close'].iloc[-2] on a frame of one row.
Assemble ==
    /\ pc = "strength_done"
    /\ IF Len(data.v.Close) < 2
       THEN Raise("IndexError")
       ELSE /\ result' = analysis_result(data, volatility, risk_metrics, signals,
                                         signal_strength, recommendation)
            /\ pc' = "returned"
    /\ UNCHANGED <<provider, fault, data, df, volatility, risk_metrics, signals,
                   signal_strength, recommendation, steps, read>>
    /\ UNCHANGED web

\* analyze_stock(symbol) as a function of what the provider answers, when no
\* library call fails: the record returned, or the exception that leaves it.
analyze_stock(p) ==
    IF get_stock_data(p).error # "None"
    THEN [kind |-> "error", error |-> get_stock_data(p).error]
    ELSE LET d == get_stock_data(p).data
             sig == generate_signals(calculate_technical_indicators(d))
             sigs == [none |-> sig.none, v |-> sig.v]
         IN IF sig.raised \/ Len(d.v.Close) < 2
            THEN [kind |-> "raised", exception |-> "IndexError"]
            ELSE analysis_result(d, calculate_volatility(d), calculate_risk_metrics(d),
                                 sigs, calculate_signal_strength(sigs).strength,
                                 calculate_signal_strength(sigs).recommendation)

----------------------------------------------------------------------------
(* SpecStrength: calculate_signal_strength applied to every signal mapping   *)
(* of at most MaxSignals entries, to the empty mapping and to None.          *)

SignalMaps == UNION {[1..k -> Signal] : k \in 0..MaxSignals}
SignalInputs == {NoneMap} \cup {SomeMap(m) : m \in SignalMaps}

InitStrength ==
    /\ pc = "call_strength"
    /\ signals \in SignalInputs
    /\ signal_strength = Unset
    /\ recommendation = "unset"
    /\ provider = NoProvider
    /\ fault = "none"
    /\ data = NoData
    /\ df = NoFrame
    /\ volatility = NoMetrics
    /\ risk_metrics = NoMetrics
    /\ steps = <<>>
    /\ result = NoResult
    /\ read = NoRead
    /\ NoRequest

\* signal_strength, recommendation = self.calculate_signal_strength(signals)
CallSignalStrength ==
    /\ pc = "call_strength"
    /\ signal_strength' = calculate_signal_strength(signals).strength
    /\ recommendation' = calculate_signal_strength(signals).recommendation
    /\ pc' = "strength_done"
    /\ steps' = Append(steps, "signal_strength")
    /\ UNCHANGED <<provider, fault, data, df, volatility, risk_metrics, signals,
                   result, read>>
    /\ UNCHANGED web

NextStrength == CallSignalStrength

Next ==
    \/ Fetch
    \/ Indicators
    \/ Volatility
    \/ RiskMetrics
    \/ Signals
    \/ CallSignalStrength
    \/ Assemble

Spec == Init /\ [][Next]_vars

SpecStrength == InitStrength /\ [][NextStrength]_vars

\* The provider has no series for the request: history() raised, returned no
\* frame, or returned an empty one.
Unavailable == provider.kind \in {"raises", "none"} \/ Len(provider.Close) = 0
Finished == pc \in {"returned", "raised"}
NothingComputed ==
    /\ steps = <<>>
    /\ df = NoFrame
    /\ volatility = NoMetrics
    /\ risk_metrics = NoMetrics
    /\ signals = NoneMap
    /\ signal_strength = Unset

\* C5: when the provider has no series, or an empty one, or the fetch raises,
\* analyze_stock returns a record with an 'error' field, and no indicator,
\* volatility, risk or signal step runs before it does.
C5_UnavailableAborts ==
    Unavailable =>
        /\ NothingComputed
        /\ pc \in {"start", "returned"}
        /\ pc = "returned" => result.kind = "error"

C5_Witness ==
    /\ pc = "returned"
    /\ provider.kind = "frame"
    /\ Len(provider.Close) = 0
    /\ result = [kind |-> "error", error |-> "No data found"]
    /\ NothingComputed

\* C6: for a series of exactly one bar analyze_stock returns a record with an
\* 'error' field and attempts no indicator computation.
C6_OneBarIsError ==
    (provider.kind = "frame" /\ Len(provider.Close) = 1 /\ fault = "none" /\ Finished) =>
        /\ pc = "returned"
        /\ result.kind = "error"
        /\ NothingComputed

StepsRun == {steps[i] : i \in 1..Len(steps)}

\* C7: when the computation of one step (indicators, volatility, risk metrics,
\* signals) raises, the other steps still run and analyze_stock still returns a
\* result that holds them.
C7_FailuresIsolated ==
    (fault \in FaultSteps /\ provider.kind = "frame" /\ Len(provider.Close) >= 2
         /\ Finished) =>
        /\ pc = "returned"
        /\ result.kind = "analysis"
        /\ FaultSteps \ {fault} \subseteq StepsRun

Ratios == {"sharpe_ratio", "sortino_ratio", "calmar_ratio"}

\* C8: calculate_risk_metrics never raises on a non-empty series, and no ratio of
\* the result record that is serialised to JSON is NaN or infinite: a ratio whose
\* denominator is zero or undefined is an explicit undefined marker instead.
C8_NoNaNInResult ==
    /\ (pc = "raised" /\ fault = "none") => "risk_metrics" \in StepsRun
    /\ (pc = "returned" /\ result.kind = "analysis") =>
           \A r \in Ratios : result.risk_metrics[r].k \notin {"nan", "inf", "ninf"}

\* The counts the claims speak of, taken on the input mapping of the state.
NumBuy == Cardinality({key \in DOMAIN signals.v : signals.v[key] = "BUY"})
NumSell == Cardinality({key \in DOMAIN signals.v : signals.v[key] = "SELL"})
NumHold == Cardinality({key \in DOMAIN signals.v : signals.v[key] = "HOLD"})
NumSignals == Cardinality(DOMAIN signals.v)
NonEmptyInput == ~signals.none /\ NumSignals > 0

\* strength = 100 * c / NumSignals, as an equation between exact rationals.
StrengthIsShare(c) ==
    /\ IsNum(signal_strength)
    /\ signal_strength.n * NumSignals = 100 * c * signal_strength.d

\* C1: for a non-empty signal set with b BUY, s SELL and n signals in all, b > s
\* gives BUY with strength 100*b/n, s > b gives SELL with strength 100*s/n, and
\* b = s (the all-HOLD set included) gives HOLD with strength exactly 50.
C1_StrengthByMajority ==
    (pc = "strength_done" /\ NonEmptyInput) =>
        /\ NumBuy > NumSell => (recommendation = "BUY" /\ StrengthIsShare(NumBuy))
        /\ NumSell > NumBuy => (recommendation = "SELL" /\ StrengthIsShare(NumSell))
        /\ NumBuy = NumSell => (recommendation = "HOLD" /\ signal_strength = Num(50))

C1_Witness ==
    /\ pc = "strength_done"
    /\ NumSignals = 3
    /\ NumSell = 2
    /\ NumHold = 1
    /\ recommendation = "SELL"
    /\ signal_strength = Rat(200, 3)

InRange(x) == IsNum(x) /\ 0 <= x.n /\ x.n <= 100 * x.d

Counts(sigs) ==
    <<CountOf(sigs.v, "BUY"), CountOf(sigs.v, "SELL"), CountOf(sigs.v, "HOLD")>>

\* Every input with the same three counts as the input of the state gets the
\* recommendation of the state.
RecommendationByCounts ==
    \A other \in SignalInputs :
        Counts(other) = Counts(signals) =>
            calculate_signal_strength(other).recommendation = recommendation

\* C2 as stated: for every input, the empty mapping and None included, the strength
\* lies in [0, 100], the recommendation is one of BUY, SELL, HOLD, and it is a
\* function of the three counts alone.
C2_Original ==
    pc = "strength_done" =>
        /\ InRange(signal_strength)
        /\ recommendation \in Signal
        /\ RecommendationByCounts

\* C2 as amended: the strength lies in [0, 100] and the recommendation is a function
\* of the three counts alone; it is one of BUY, SELL, HOLD for a non-empty mapping,
\* and for the empty mapping and None the result is strength 0 with NEUTRAL.
C2_StrengthRange ==
    pc = "strength_done" =>
        /\ InRange(signal_strength)
        /\ RecommendationByCounts
        /\ NonEmptyInput => recommendation \in Signal
        /\ ~NonEmptyInput => (recommendation = "NEUTRAL" /\ signal_strength = Num(0))

C2_Witness ==
    /\ pc = "strength_done"
    /\ signals.none
    /\ recommendation = "NEUTRAL"
    /\ signal_strength = Num(0)

SwapSignal(s) == IF s = "BUY" THEN "SELL" ELSE IF s = "SELL" THEN "BUY" ELSE s
SwapMap(sigs) ==
    [none |-> sigs.none, v |-> [key \in DOMAIN sigs.v |-> SwapSignal(sigs.v[key])]]

\* C3: replacing every BUY by SELL and every SELL by BUY in the input swaps BUY and
\* SELL in the recommendation (HOLD stays) and leaves the strength unchanged.
C3_TieSymmetric ==
    pc = "strength_done" =>
        /\ calculate_signal_strength(SwapMap(signals)).recommendation
               = SwapSignal(recommendation)
        /\ calculate_signal_strength(SwapMap(signals)).strength = signal_strength

C3_Witness ==
    /\ pc = "strength_done"
    /\ NumBuy = 2
    /\ NumSell = 1
    /\ NumHold = 1
    /\ recommendation = "BUY"
    /\ calculate_signal_strength(SwapMap(signals)).recommendation = "SELL"

----------------------------------------------------------------------------
(* SpecSignals: generate_signals on the frames calculate_technical_indicators *)
(* can produce, of 1..MaxFrameLen rows.  The rules run in the order of the    *)
(* code, one step each.  No two rules read the same column, so the values a   *)
(* rule reads are drawn when the rule runs; `read` keeps them, and `signals`  *)
(* the entries written so far.                                                *)

Min(a, b) == IF a < b THEN a ELSE b

Vals == {Num(v) : v \in 1..MaxVal}
RsiVals == {Num(th + e) : th \in {RsiOversold, RsiOverbought}, e \in (-Eps)..Eps}
StochVals == {Num(th + e) : th \in {StochOversold, StochOverbought}, e \in (-Eps)..Eps}

\* The last t rows of a column of n rows that is NaN exactly before position first.
ColTails(n, t, first, vals) ==
    {s \in [1..Min(n, t) -> vals \cup {NaN}] :
        \A j \in 1..Min(n, t) : IsNaN(s[j]) <=> (n - Min(n, t) + j < first)}

\* Bands: NaN together before the window is filled; then lower <= upper, and a
\* window of zero deviation (lower = upper) holds the close itself.
BandTails(n) ==
    {b \in [close : Vals, upper : Vals \cup {NaN}, lower : Vals \cup {NaN}] :
        /\ IsNaN(b.upper) <=> (n < FirstDefined.BB_Upper)
        /\ IsNaN(b.lower) <=> (n < FirstDefined.BB_Lower)
        /\ (IsNum(b.upper) /\ IsNum(b.lower)) =>
              (FLe(b.lower, b.upper) /\ (b.lower = b.upper => b.close = b.upper))}

\* %K is NaN before its window is filled and where the window's high equals its
\* low (0/0); %D, the mean of the last three %K, is NaN when one of them is.
StochTails(n) ==
    {s \in [k : StochVals \cup {NaN}, d : StochVals \cup {NaN}] :
        /\ (n < FirstDefined.Stoch_K) => IsNaN(s.k)
        /\ (n < FirstDefined.Stoch_D \/ IsNaN(s.k)) => IsNaN(s.d)}

InitSignals ==
    /\ pc = "ma"
    /\ df \in {[none |-> FALSE, n |-> n, cols |-> <<>>] : n \in 1..MaxFrameLen}
    /\ signals = SomeMap(<<>>)
    /\ read = NoRead
    /\ signal_strength = Unset
    /\ recommendation = "unset"
    /\ provider = NoProvider
    /\ fault = "none"
    /\ data = NoData
    /\ volatility = NoMetrics
    /\ risk_metrics = NoMetrics
    /\ steps = <<>>
    /\ result = NoResult
    /\ NoRequest

\* The outcome r of rule `name`, which read `cols`: an entry of signals, or the
\* exception leaving generate_signals.
RuleStep(name, cols, r, next) ==
    /\ read' = [rule |-> name, cols |-> cols]
    /\ IF r = "IndexError"
       THEN pc' = "signals_raised" /\ UNCHANGED signals
       ELSE pc' = next /\ signals' = SomeMap(signals.v @@ (name :> r))
    /\ UNCHANGED <<provider, fault, data, df, volatility, risk_metrics,
                   signal_strength, recommendation, steps, result>>
    /\ UNCHANGED web

RuleMA ==
    /\ pc = "ma"
    /\ \E sma20 \in ColTails(df.n, 2, FirstDefined.SMA_20, Vals),
          sma50 \in ColTails(df.n, 2, FirstDefined.SMA_50, Vals) :
          RuleStep("MA_Crossover", [fast |-> sma20, slow |-> sma50],
                   MA_Crossover(sma20, sma50), "macd")

RuleMACD ==
    /\ pc = "macd"
    /\ \E macd_col \in ColTails(df.n, 2, FirstDefined.MACD, Vals),
          signal_col \in ColTails(df.n, 2, FirstDefined.MACD_Signal, Vals) :
          RuleStep("MACD", [fast |-> macd_col, slow |-> signal_col],
                   MACD_rule(macd_col, signal_col), "rsi")

RuleRSI ==
    /\ pc = "rsi"
    /\ \E rsi_col \in ColTails(df.n, 1, FirstDefined.RSI, RsiVals) :
          RuleStep("RSI", [rsi |-> Last(rsi_col)], RSI_rule(rsi_col), "bb")

RuleBollinger ==
    /\ pc = "bb"
    /\ \E b \in BandTails(df.n) :
          RuleStep("Bollinger_Bands", b,
                   Bollinger_rule(<<b.close>>, <<b.upper>>, <<b.lower>>), "stoch")

RuleStochastic ==
    /\ pc = "stoch"
    /\ \E s \in StochTails(df.n) :
          RuleStep("Stochastic", s, Stochastic_rule(<<s.k>>, <<s.d>>), "signals_done")

NextSignals == RuleMA \/ RuleMACD \/ RuleRSI \/ RuleBollinger \/ RuleStochastic

SpecSignals == InitSignals /\ [][NextSignals]_vars

\* The values the rule of the last step read, and whether one of them is missing:
\* NaN, or a previous row that the frame does not have.
IsCrossover == read.rule \in {"MA_Crossover", "MACD"}
ReadValues ==
    IF IsCrossover
    THEN {read.cols.fast[j] : j \in DOMAIN read.cols.fast}
             \cup {read.cols.slow[j] : j \in DOMAIN read.cols.slow}
    ELSE {read.cols[f] : f \in DOMAIN read.cols}
ReadUndefined ==
    \/ \E x \in ReadValues : IsNaN(x)
    \/ IsCrossover /\ Len(read.cols.fast) < 2

\* C4: in generate_signals a rule that reads an undefined value (insufficient
\* history) at the latest or the previous position resolves to HOLD and does not
\* raise, whatever the other rules have resolved to.
C4_UndefinedInputsHold ==
    (read.rule # "none" /\ ReadUndefined) =>
        /\ pc # "signals_raised"
        /\ read.rule \in DOMAIN signals.v
        /\ signals.v[read.rule] = "HOLD"

C4_Witness ==
    /\ pc = "signals_done"
    /\ read.rule = "Stochastic"
    /\ IsNum(read.cols.k)
    /\ IsNaN(read.cols.d)
    /\ signals.v["Stochastic"] = "HOLD"
    /\ signals.v["MA_Crossover"] = "BUY"
    /\ signals.v["RSI"] = "SELL"

\* The four values of a crossover rule, as exact rationals, compared by cross
\* multiplication.
FastLatest == read.cols.fast[2]
SlowLatest == read.cols.slow[2]
FastPrev == read.cols.fast[1]
SlowPrev == read.cols.slow[1]
AllDefined == Len(read.cols.fast) = 2 /\ \A x \in ReadValues : IsNum(x)
Below(a, b) == a.n * b.d < b.n * a.d
CrossUp == ~Below(SlowPrev, FastPrev) /\ Below(SlowLatest, FastLatest)
CrossDown == ~Below(FastPrev, SlowPrev) /\ Below(FastLatest, SlowLatest)

\* C10: for the MA_Crossover and MACD rules with all four values defined, the signal
\* is BUY exactly when prev fast <= prev slow and latest fast > latest slow, SELL
\* exactly when prev fast >= prev slow and latest fast < latest slow, HOLD in every
\* other case; the BUY and SELL conditions exclude each other.
C10_CrossoverExact ==
    (IsCrossover /\ AllDefined) =>
        /\ pc # "signals_raised"
        /\ signals.v[read.rule] = "BUY" <=> CrossUp
        /\ signals.v[read.rule] = "SELL" <=> CrossDown
        /\ signals.v[read.rule] = "HOLD" <=> (~CrossUp /\ ~CrossDown)
        /\ ~(CrossUp /\ CrossDown)

C10_Witness ==
    /\ read.rule = "MACD"
    /\ AllDefined
    /\ FastPrev = SlowPrev
    /\ Below(SlowLatest, FastLatest)
    /\ signals.v["MACD"] = "BUY"
    /\ signals.v["MA_Crossover"] = "SELL"

----------------------------------------------------------------------------
(* SpecMacd: the moving average and MACD columns of                          *)
(* calculate_technical_indicators (lines 37-44) on series long enough for    *)
(* every one of them to be defined: a flat stretch followed by a short tail. *)

LongSeries ==
    {[i \in 1..flat |-> Num(c)] \o tail :
        flat \in (MaxFlat - 2)..MaxFlat,
        c \in 1..MaxFlatPrice,
        tail \in UNION {[1..k -> {Num(x) : x \in 1..MaxFlatPrice}] : k \in 0..MaxTail}}

InitMacd ==
    /\ pc = "moving_averages"
    /\ data \in {Frame(s) : s \in LongSeries}
    /\ df = NoFrame
    /\ signals = NoneMap
    /\ read = NoRead
    /\ signal_strength = Unset
    /\ recommendation = "unset"
    /\ provider = NoProvider
    /\ fault = "none"
    /\ volatility = NoMetrics
    /\ risk_metrics = NoMetrics
    /\ steps = <<>>
    /\ result = NoResult
    /\ NoRequest

\* Lines 34-40: df = data.copy() and the four moving averages.
ComputeMovingAverages ==
    /\ pc = "moving_averages"
    /\ df' = [none |-> FALSE,
              n |-> Len(data.v.Close),
              cols |-> [Close |-> data.v.Close] @@ MovingAverageCols(data.v.Close)]
    /\ pc' = "macd"
    /\ UNCHANGED <<provider, fault, data, volatility, risk_metrics, signals,
                   signal_strength, recommendation, steps, result, read>>
    /\ UNCHANGED web

\* Lines 43-44.
ComputeMacd ==
    /\ pc = "macd"
    /\ df' = [df EXCEPT !.cols = df.cols @@ MacdCols(df.cols.Close)]
    /\ pc' = "macd_done"
    /\ UNCHANGED <<provider, fault, data, volatility, risk_metrics, signals,
                   signal_strength, recommendation, steps, result, read>>
    /\ UNCHANGED web

NextMacd == ComputeMovingAverages \/ ComputeMacd

SpecMacd == InitMacd /\ [][NextMacd]_vars

\* C9: at every position the 'MACD' column equals the 'EMA_12' column minus the
\* 'EMA_26' column.  Stated here for the positions where the 'MACD' column is
\* defined, which the claim includes.
C9_MacdIsEmaDifference ==
    pc = "macd_done" =>
        \A i \in 1..df.n :
            IsNum(df.cols.MACD[i]) =>
                df.cols.MACD[i] = FSub(df.cols.EMA_12[i], df.cols.EMA_26[i])

----------------------------------------------------------------------------
(* SpecRamp: the indicator, signal and strength steps of analyze_stock       *)
(* (lines 189, 194, 195) on a series of daily closes that rises by one a day,*)
(* analysed again after every new bar.  A bar reaches High = Close + h and   *)
(* Low = Close - h.  The volatility and risk steps are left out: the         *)
(* recommendation does not read them.                                        *)

RampSeries(first, h) ==
    [kind |-> "frame",
     Close |-> Column([i \in 1..RampLen |-> Num(first + i - 1)]),
     High |-> Column([i \in 1..RampLen |-> Num(first + i - 1 + h)]),
     Low |-> Column([i \in 1..RampLen |-> Num(first + i - 1 - h)])]

\* The frame of the first t bars of the provider's series.
Prefix(p, t) ==
    [none |-> FALSE,
     v |-> [Close |-> SubSeq(p.Close, 1, t),
            High |-> SubSeq(p.High, 1, t),
            Low |-> SubSeq(p.Low, 1, t)]]

InitRamp ==
    /\ pc = "indicators"
    /\ provider \in {RampSeries(RampFirst, h) : h \in 0..MaxRange}
    /\ data = Prefix(provider, 1)
    /\ fault = "none"
    /\ df = NoFrame
    /\ volatility = NoMetrics
    /\ risk_metrics = NoMetrics
    /\ signals = NoneMap
    /\ signal_strength = Unset
    /\ recommendation = "unset"
    /\ steps = <<>>
    /\ result = NoResult
    /\ read = NoRead
    /\ NoRequest

\* Line 189.
RampIndicators ==
    /\ pc = "indicators"
    /\ df' = calculate_technical_indicators(data)
    /\ pc' = "signals"
    /\ UNCHANGED <<provider, fault, data, volatility, risk_metrics, signals,
                   signal_strength, recommendation, steps, result, read>>
    /\ UNCHANGED web

\* Line 194.  steps collects the MA_Crossover signal of every bar analysed.
RampSignals ==
    /\ pc = "signals"
    /\ IF generate_signals(df).raised
       THEN Raise("IndexError") /\ UNCHANGED <<signals, steps>>
       ELSE /\ signals' = [none |-> generate_signals(df).none, v |-> generate_signals(df).v]
            /\ steps' = Append(steps, generate_signals(df).v.MA_Crossover)
            /\ pc' = "strength"
            /\ UNCHANGED result
    /\ UNCHANGED <<provider, fault, data, df, volatility, risk_metrics,
                   signal_strength, recommendation, read>>
    /\ UNCHANGED web

\* Line 195, and the fields of lines 208-210 of the record returned.
RampStrength ==
    /\ pc = "strength"
    /\ signal_strength' = calculate_signal_strength(signals).strength
    /\ recommendation' = calculate_signal_strength(signals).recommendation
    /\ result' = [kind |-> "analysis",
                  signals |-> signals,
                  signal_strength |-> Round(calculate_signal_strength(signals).strength, 1),
                  recommendation |-> calculate_signal_strength(signals).recommendation,
                  data_points |-> Len(data.v.Close)]
    /\ pc' = "bar_done"
    /\ UNCHANGED <<provider, fault, data, df, volatility, risk_metrics, signals,
                   steps, read>>
    /\ UNCHANGED web

\* The next day: the series has one more bar and is analysed afresh.
RampNextBar ==
    /\ pc = "bar_done"
    /\ Len(data.v.Close) < Len(provider.Close)
    /\ data' = Prefix(provider, Len(data.v.Close) + 1)
    /\ pc' = "indicators"
    /\ UNCHANGED <<provider, fault, df, volatility, risk_metrics, signals,
                   signal_strength, recommendation, steps, result, read>>
    /\ UNCHANGED web

NextRamp == RampIndicators \/ RampSignals \/ RampStrength \/ RampNextBar

SpecRamp == InitRamp /\ [][NextRamp]_vars

\* The analysis of the final bar is complete.
FinalBar == pc = "bar_done" /\ result.data_points = RampLen
Votes(s) == Cardinality({r \in DOMAIN signals.v : signals.v[r] = s})
Share(s) == Rat(100 * Votes(s), Cardinality(DOMAIN signals.v))
BuyBars == {t \in 1..Len(steps) : steps[t] = "BUY"}
BothDefined(t) == IsNum(df.cols.SMA_20[t]) /\ IsNum(df.cols.SMA_50[t])

\* C11 as stated: on the ramp of RampLen closes from RampFirst the final
\* recommendation is BUY with strength 100 times the share of the rules that vote
\* BUY, and MA_Crossover is BUY at exactly one bar.
C11_Original ==
    FinalBar =>
        /\ result.recommendation = "BUY"
        /\ result.signal_strength = Share("BUY")
        /\ Cardinality(BuyBars) = 1

\* C11, amended: on the ramp MA_Crossover is BUY at no bar, since SMA_20 is above
\* SMA_50 at every bar where both are defined; at the final bar RSI and Stochastic
\* vote SELL and the other three rules HOLD, so the recommendation is SELL with
\* strength 100 times the share of the rules that vote SELL, which is 40.
C11_RampIsSell ==
    /\ BuyBars = {}
    /\ (pc = "signals" /\ df.n >= SmaLongWindow) =>
           \A t \in 1..df.n : BothDefined(t) => FGt(df.cols.SMA_20[t], df.cols.SMA_50[t])
    /\ FinalBar =>
           /\ result.recommendation = "SELL"
           /\ result.signal_strength = Share("SELL")
           /\ result.signal_strength = Num(40)
           /\ signals.v = [MA_Crossover |-> "HOLD", MACD |-> "HOLD", RSI |-> "SELL",
                           Bollinger_Bands |-> "HOLD", Stochastic |-> "SELL"]

C11_Witness ==
    /\ FinalBar
    /\ Len(steps) = RampLen
    /\ result.recommendation = "SELL"
    /\ FGt(df.cols.SMA_20[RampLen], df.cols.SMA_50[RampLen])

----------------------------------------------------------------------------
(* SpecConcurrent: MaxThreads requests of the web application, each calling  *)
(* analyze_stock on the one analyzer of app.py (line 19), their steps        *)
(* interleaved in every order.  provider[t] is what the provider answers to  *)
(* call t; local[t] holds the local variables of call t, response[t] what it *)
(* returns, and result[t] what the same call returns when it runs alone.     *)

Threads == 1..MaxThreads

ConcurrentOutcomes ==
    {[kind |-> "raises", Close |-> <<>>]}
        \cup {[kind |-> "frame", Close |-> c] :
                 c \in {<<>>, <<Num(1)>>, <<Num(1), Num(2)>>, <<Num(2), Num(1), Num(2)>>}}

NoCall ==
    [pc |-> "start", data |-> NoData, df |-> NoFrame, volatility |-> NoMetrics,
     risk_metrics |-> NoMetrics, signals |-> NoneMap, signal_strength |-> Unset,
     recommendation |-> "unset"]

InitConcurrent ==
    /\ pc = "serving"
    /\ provider \in [Threads -> ConcurrentOutcomes]
    /\ analyzer = StockAnalyzer
    /\ local = [t \in Threads |-> NoCall]
    /\ response = [t \in Threads |-> NoResponse]
    /\ env = NoEnv
    /\ log = <<>>
    /\ fault = "none"
    /\ data = NoData
    /\ df = NoFrame
    /\ volatility = NoMetrics
    /\ risk_metrics = NoMetrics
    /\ signals = NoneMap
    /\ signal_strength = Unset
    /\ recommendation = "unset"
    /\ steps = <<>>
    /\ result = [t \in Threads |-> analyze_stock(provider[t])]
    /\ read = NoRead

\* A step that leaves the analyzer's fields as they are and everything beside
\* local and response: the methods of StockAnalyzer assign to self in __init__ only.
\* A risk step that sets the rate on the instance while it runs.
SelfAfter_sets_rate(self, step) ==
    IF step = "risk_metrics" THEN [self EXCEPT !.risk_free_rate = Num(0)] ELSE self

SelfAfter(self, step) == self
CallStep(t, step, now, returned) ==
    /\ local' = [local EXCEPT ![t] = now]
    /\ response' = [response EXCEPT ![t] = returned]
    /\ analyzer' = SelfAfter(analyzer, step)
    /\ UNCHANGED <<pc, provider, fault, data, df, volatility, risk_metrics, signals,
                   signal_strength, recommendation, steps, result, read, env, log>>

\* Lines 184-186.
ThreadFetch(t) ==
    /\ local[t].pc = "start"
    /\ IF get_stock_data(provider[t]).error # "None"
       THEN CallStep(t, "start", [local[t] EXCEPT !.pc = "returned"],
                     [kind |-> "error", error |-> get_stock_data(provider[t]).error])
       ELSE CallStep(t, "start",
                     [local[t] EXCEPT !.pc = "indicators",
                                      !.data = get_stock_data(provider[t]).data],
                     response[t])

\* Line 189.
ThreadIndicators(t) ==
    /\ local[t].pc = "indicators"
    /\ CallStep(t, "indicators",
                [local[t] EXCEPT !.pc = "volatility",
                                 !.df = calculate_technical_indicators(local[t].data)],
                response[t])

\* Line 192.
ThreadVolatility(t) ==
    /\ local[t].pc = "volatility"
    /\ CallStep(t, "volatility",
                [local[t] EXCEPT !.pc = "risk_metrics",
                                 !.volatility = calculate_volatility(local[t].data)],
                response[t])

\* Line 193.
ThreadRiskMetrics(t) ==
    /\ local[t].pc = "risk_metrics"
    /\ CallStep(t, "risk_metrics",
                [local[t] EXCEPT !.pc = "signals",
                                 !.risk_metrics = calculate_risk_metrics(local[t].data)],
                response[t])

\* Lines 194-195.
ThreadSignals(t) ==
    /\ local[t].pc = "signals"
    /\ LET sig == generate_signals(local[t].df)
           sigs == [none |-> sig.none, v |-> sig.v]
       IN IF sig.raised
          THEN CallStep(t, "signals", [local[t] EXCEPT !.pc = "raised"],
                        [kind |-> "raised", exception |-> "IndexError"])
          ELSE CallStep(t, "signals",
                        [local[t] EXCEPT
                            !.pc = "assemble",
                            !.signals = sigs,
                            !.signal_strength = calculate_signal_strength(sigs).strength,
                            !.recommendation = calculate_signal_strength(sigs).recommendation],
                        response[t])

\* Lines 198-217.
ThreadAssemble(t) ==
    /\ local[t].pc = "assemble"
    /\ IF Len(local[t].data.v.Close) < 2
       THEN CallStep(t, "assemble", [local[t] EXCEPT !.pc = "raised"],
                     [kind |-> "raised", exception |-> "IndexError"])
       ELSE CallStep(t, "assemble", [local[t] EXCEPT !.pc = "returned"],
                     analysis_result(local[t].data, local[t].volatility, local[t].risk_metrics,
                                     local[t].signals, local[t].signal_strength,
                                     local[t].recommendation))

NextConcurrent ==
    \E t \in Threads :
        \/ ThreadFetch(t)
        \/ ThreadIndicators(t)
        \/ ThreadVolatility(t)
        \/ ThreadRiskMetrics(t)
        \/ ThreadSignals(t)
        \/ ThreadAssemble(t)

SpecConcurrent == InitConcurrent /\ [][NextConcurrent]_vars

Done(t) == local[t].pc \in {"returned", "raised"}

\* C12: under every interleaving no step of a call changes the analyzer's fields
\* or the frame the provider gave to a call, and every finished call has the
\* result the same call has when it runs alone on the same series.
C12_NoInterference ==
    /\ analyzer = StockAnalyzer
    /\ \A t \in Threads :
           /\ local[t].pc \notin {"start", "returned"} \/ ~local[t].data.none =>
                  local[t].data = get_stock_data(provider[t]).data
           /\ Done(t) => response[t] = result[t]
           /\ ~Done(t) => response[t] = NoResponse

C12_Witness ==
    /\ \A t \in Threads : Done(t)
    /\ response[1].kind = "analysis"
    /\ response[2].kind = "analysis"
    /\ response[1] # response[2]

RsiBounds == {Num(RsiOversold), Num(RsiOverbought)}
StochBounds == {Num(StochOversold), Num(StochOverbought)}

C14_ShortSeriesUndefined ==
    Len(data.v.Close) < 2 =>
        /\ "volatility" \in StepsRun => volatility.none /\ calculate_volatility(data).none
        /\ "risk_metrics" \in StepsRun =>
               risk_metrics.none /\ calculate_risk_metrics(data).none

(***************************************************************************)
(* stock_detail (src/app.py): the page of one symbol.  The environment     *)
(* holds what the provider answers to each of the calls of one request:    *)
(* the profile read by the validation, the history read by analyze_stock,  *)
(* the profile read by get_market_sentiment and the history read again     *)
(* for the charts.                                                         *)
(***************************************************************************)
Suffixes == <<".NS", ".BO", ".L", ".TO", ".AX", ".HK", ".SS", ".SZ">>

\* The locals of analyze_stock before any call: the page and the loops call it
\* as a whole.
IdleCall ==
    /\ fault = "none"
    /\ data = NoData
    /\ df = NoFrame
    /\ volatility = NoMetrics
    /\ risk_metrics = NoMetrics
    /\ signals = NoneMap
    /\ signal_strength = Unset
    /\ recommendation = "unset"
    /\ steps = <<>>
    /\ read = NoRead

call == <<provider, fault, data, df, volatility, risk_metrics, signals,
          signal_strength, recommendation, steps, result, read>>

\* ticker.info of the requested symbol: a profile with a symbol, one without,
\* or an exception; suffix is the first exchange suffix whose profile has a
\* symbol (0: none of them has).
ValidationOutcomes ==
    {[info |-> i, suffix |-> 0] : i \in {"valid", "raises"}}
        \cup {[info |-> "missing", suffix |-> k] : k \in 0..Len(Suffixes)}

\* stock.info as get_market_sentiment reads it: a dictionary with the keys, a
\* dictionary without them, None, or an exception.
ProfileOutcomes == {"full", "empty", "None", "raises"}

DetailEnvs ==
    [validation : ValidationOutcomes, history : ConcurrentOutcomes,
     profile : ProfileOutcomes, chart_history : ConcurrentOutcomes]

\* A variant without the try block: the exception leaves the method.
get_market_sentiment_unguarded(profile) ==
    IF profile \in {"raises", "None"}
    THEN [kind |-> "raised", exception |-> "Exception", fields |-> "none"]
    ELSE [kind |-> "sentiment", exception |-> "none",
          fields |-> IF profile = "full" THEN "values" ELSE "N/A"]

get_market_sentiment(profile) ==
    IF profile \in {"raises", "None"}
    THEN [kind |-> "error", exception |-> "none", fields |-> "none"]
    ELSE [kind |-> "sentiment", exception |-> "none",
          fields |-> IF profile = "full" THEN "values" ELSE "N/A"]

create_price_chart(d, symbol) == [chart |-> "price", points |-> d.n, symbol |-> symbol]

create_rsi_chart(d, symbol) == [chart |-> "rsi", points |-> d.n, symbol |-> symbol]

create_macd_chart(d, symbol) == [chart |-> "macd", points |-> d.n, symbol |-> symbol]

NoCharts == [none |-> TRUE, price |-> "none", rsi |-> "none", macd |-> "none"]

Charts(d, symbol) ==
    [none |-> FALSE, price |-> create_price_chart(d, symbol),
     rsi |-> create_rsi_chart(d, symbol), macd |-> create_macd_chart(d, symbol)]

Page(template, analysis, sentiment, charts, symbol) ==
    [kind |-> "page", template |-> template, analysis |-> analysis,
     sentiment |-> sentiment, charts |-> charts, symbol |-> symbol]

Raised == [kind |-> "raised"]

NoDetail ==
    [pc |-> "validate", symbol |-> 0, analysis |-> "unset", sentiment |-> "unset"]

InitDetail ==
    /\ pc = "stock_detail"
    /\ analyzer = StockAnalyzer
    /\ env \in DetailEnvs
    /\ provider = env.history
    /\ result = analyze_stock(env.history)
    /\ local = NoDetail
    /\ response = NoResponse
    /\ log = <<>>
    /\ IdleCall

DetailFrame == <<pc, analyzer, env, call>>

\* Lines 44-66: the symbol is looked up as given and then with each suffix;
\* the page is refused when no profile has a symbol, and an exception of the
\* first lookup is printed and the request goes on.
DetailValidate ==
    /\ pc = "stock_detail"
    /\ local.pc = "validate"
    /\ IF env.validation.info = "missing" /\ env.validation.suffix = 0
       THEN /\ response' = Page("error.html", "none", "none", NoCharts, local.symbol)
            /\ local' = [local EXCEPT !.pc = "done"]
            /\ log' = log
       ELSE /\ response' = response
            /\ local' = [local EXCEPT !.pc = "analyze", !.symbol = env.validation.suffix]
            /\ log' = IF env.validation.info = "raises"
                      THEN Append(log, "Stock validation error")
                      ELSE log
    /\ UNCHANGED DetailFrame

\* Line 69.
DetailAnalyze ==
    /\ pc = "stock_detail"
    /\ local.pc = "analyze"
    /\ IF result.kind = "raised"
       THEN /\ response' = Raised
            /\ local' = [local EXCEPT !.pc = "done"]
       ELSE /\ response' = response
            /\ local' = [local EXCEPT !.pc = "sentiment", !.analysis = result]
    /\ UNCHANGED <<log, DetailFrame>>

\* Line 70.
DetailSentiment ==
    /\ pc = "stock_detail"
    /\ local.pc = "sentiment"
    /\ LET s == get_market_sentiment(env.profile)
       IN IF s.kind = "raised"
          THEN /\ response' = Raised
               /\ local' = [local EXCEPT !.pc = "done"]
          ELSE /\ response' = response
               /\ local' = [local EXCEPT !.pc = "check", !.sentiment = s]
    /\ UNCHANGED <<log, DetailFrame>>

\* Lines 72-73.
DetailCheckError ==
    /\ pc = "stock_detail"
    /\ local.pc = "check"
    /\ IF local.analysis.kind = "error"
       THEN /\ response' = Page("error.html", local.analysis, "none", NoCharts, local.symbol)
            /\ local' = [local EXCEPT !.pc = "done"]
       ELSE /\ response' = response
            /\ local' = [local EXCEPT !.pc = "charts"]
    /\ UNCHANGED <<log, DetailFrame>>

\* Lines 76-101: the history is fetched again; the charts are drawn from it
\* when it came, and the page is rendered.
DetailRender ==
    /\ pc = "stock_detail"
    /\ local.pc = "charts"
    /\ LET d == get_stock_data(env.chart_history).data
           charts == IF d.none
                     THEN NoCharts
                     ELSE Charts(calculate_technical_indicators(d), local.symbol)
       IN response' = Page("stock_detail.html", local.analysis, local.sentiment,
                           charts, local.symbol)
    /\ local' = [local EXCEPT !.pc = "done"]
    /\ UNCHANGED <<log, DetailFrame>>

NextDetail ==
    \/ DetailValidate
    \/ DetailAnalyze
    \/ DetailSentiment
    \/ DetailCheckError
    \/ DetailRender

SpecDetail == InitDetail /\ [][NextDetail]_vars

DetailDone == pc = "stock_detail" /\ local.pc = "done"

\* The request went past the validation and the analysis returned a result
\* without an error.
AnalysisGood ==
    /\ pc = "stock_detail"
    /\ ~(env.validation.info = "missing" /\ env.validation.suffix = 0)
    /\ result.kind = "analysis"

\* C13 as stated: a failing profile fetch is returned as an error record and
\* never raises, and a good analysis is rendered with its three charts whatever
\* the sentiment call gave.
C13_Original ==
    DetailDone /\ AnalysisGood =>
        /\ response.kind = "page"
        /\ response.template = "stock_detail.html"
        /\ response.analysis = result
        /\ ~response.charts.none

\* C13: a failing profile fetch never raises: the sentiment is an error record
\* exactly when the fetch failed, and the request goes on.  A good analysis is
\* rendered on the detail page together with that sentiment whatever the
\* sentiment call gave; the charts are on the page exactly when the second
\* fetch of the history returned data.
C13_SentimentDoesNotBlock ==
    /\ pc = "stock_detail" /\ local.pc \in {"check", "charts"} =>
           /\ local.sentiment.kind \in {"sentiment", "error"}
           /\ local.sentiment.kind = "error" <=> env.profile \in {"raises", "None"}
    /\ DetailDone /\ AnalysisGood =>
           /\ response.kind = "page"
           /\ response.template = "stock_detail.html"
           /\ response.analysis = result
           /\ response.sentiment.kind = "error" <=> env.profile \in {"raises", "None"}
           /\ response.charts.none <=> get_stock_data(env.chart_history).data.none

\* The profile fetch failed and the good analysis is on the page with charts.
C13_Witness ==
    /\ DetailDone
    /\ AnalysisGood
    /\ env.profile = "raises"
    /\ response.kind = "page"
    /\ response.template = "stock_detail.html"
    /\ response.sentiment.kind = "error"
    /\ ~response.charts.none


(***************************************************************************)
(* api_market_overview and dashboard (src/app.py): a fixed list of symbols *)
(* is analysed in a loop whose body is a try block.  The environment holds *)
(* what the provider answers for each symbol of the list; at most          *)
(* MaxFailures of them fail, in any positions and in any of the three ways *)
(* a fetch can fail to give an analysis.                                   *)
(***************************************************************************)
Stock(symbol, name, market) == [symbol |-> symbol, name |-> name, market |-> market]

global_symbols ==
    <<Stock("AAPL", "Apple Inc.", "US"), Stock("MSFT", "Microsoft", "US"),
      Stock("GOOGL", "Alphabet", "US"), Stock("AMZN", "Amazon", "US"),
      Stock("TSLA", "Tesla", "US"), Stock("META", "Meta", "US"),
      Stock("NVDA", "NVIDIA", "US"), Stock("TCS.NS", "TCS", "India"),
      Stock("RELIANCE.NS", "Reliance", "India"), Stock("INFY.NS", "Infosys", "India"),
      Stock("HDFC.NS", "HDFC Bank", "India"), Stock("ICICIBANK.NS", "ICICI Bank", "India"),
      Stock("ASML.AS", "ASML", "Europe"), Stock("NOVO-B.CO", "Novo Nordisk", "Europe"),
      Stock("NESN.SW", "Nestle", "Europe"), Stock("005930.KS", "Samsung", "Asia"),
      Stock("0700.HK", "Tencent", "Asia"), Stock("7203.T", "Toyota", "Asia")>>

popular_symbols == <<"AAPL", "MSFT", "GOOGL", "AMZN", "TSLA">>

\* The symbols a route walks through.
SymbolsOf(route) ==
    IF route = "api_market_overview"
    THEN [j \in 1..Len(global_symbols) |-> global_symbols[j].symbol]
    ELSE popular_symbols

\* What the provider answers for one symbol: a month of history that gives an
\* analysis, or one of the answers that do not: an exception of the provider, an
\* empty frame, a frame of one bar.
FailOutcomes == {"raises", "empty", "one_bar"}

PlainOutcome == "frame"

History(o) ==
    IF o = "raises" THEN [kind |-> "raises", Close |-> <<>>]
    ELSE IF o = "empty" THEN [kind |-> "frame", Close |-> <<>>]
    ELSE IF o = "one_bar" THEN [kind |-> "frame", Close |-> <<Num(1)>>]
    ELSE [kind |-> "frame", Close |-> <<Num(1), Num(2)>>]

LoopOutcomes(n) ==
    {[j \in 1..n |-> IF j \in DOMAIN f THEN f[j] ELSE PlainOutcome] :
        f \in UNION {[S -> FailOutcomes] :
                        S \in {T \in SUBSET (1..n) : Cardinality(T) <= MaxFailures}}}

LoopEnvs ==
    {[route |-> r, outcomes |-> o] :
        r \in {"api_market_overview"}, o \in LoopOutcomes(Len(global_symbols))}
      \cup {[route |-> r, outcomes |-> o] :
               r \in {"dashboard"}, o \in LoopOutcomes(Len(popular_symbols))}

\* Line 203 of analyze_stock: the result carries the symbol it was asked for.
WithSymbol(a, symbol) == [symbol |-> symbol] @@ a

\* One entry of the overview, lines 391-399.
OverviewEntry(stock, a) ==
    [symbol |-> stock.symbol, name |-> stock.name, market |-> stock.market,
     price |-> a.current_price, change |-> a.price_change_pct,
     recommendation |-> a.recommendation, signal_strength |-> a.signal_strength]

\* A loop body without the try block: the exception leaves the loop.
TryAnalysis_uncaught(a) ==
    IF a.kind = "raised" THEN "abort"
    ELSE IF a.kind = "error" THEN "skip"
    ELSE "append"

\* The body of the loop on the outcome a of analyze_stock: an exception is
\* caught and the loop continues, an error record is passed over, a result is
\* appended.
TryAnalysis(a) ==
    IF a.kind = "raised" THEN "continue"
    ELSE IF a.kind = "error" THEN "skip"
    ELSE "append"

InitLoop ==
    /\ analyzer = StockAnalyzer
    /\ result = [o \in FailOutcomes \cup {PlainOutcome} |-> analyze_stock(History(o))]
    /\ env \in LoopEnvs
    /\ pc = env.route
    /\ provider = NoProvider
    /\ local = [i |-> 1, out |-> <<>>, pc |-> "loop"]
    /\ response = NoResponse
    /\ log = <<>>
    /\ IdleCall

LoopFrame == <<pc, analyzer, env, call>>

\* One pass of a loop over stocks: lines 387-402 and 468-474.
Iterate(entry, printed) ==
    /\ local.pc = "loop"
    /\ local.i <= Len(env.outcomes)
    /\ LET a == result[env.outcomes[local.i]]
           t == TryAnalysis(a)
       IN /\ local' = [local EXCEPT
                          !.i = IF t = "abort" THEN @ ELSE @ + 1,
                          !.out = IF t = "append" THEN Append(@, entry) ELSE @,
                          !.pc = IF t = "abort" THEN "done" ELSE @]
          /\ response' = IF t = "abort" THEN Raised ELSE response
          /\ log' = IF t = "continue" /\ printed THEN Append(log, local.i) ELSE log
    /\ UNCHANGED LoopFrame

\* Lines 387-402.
OverviewIterate ==
    /\ pc = "api_market_overview"
    /\ local.i <= Len(global_symbols)
    /\ Iterate(OverviewEntry(global_symbols[local.i], result[env.outcomes[local.i]]), TRUE)

\* Line 404.
OverviewReturn ==
    /\ pc = "api_market_overview"
    /\ local.pc = "loop"
    /\ local.i > Len(global_symbols)
    /\ response' = [kind |-> "json", body |-> local.out]
    /\ local' = [local EXCEPT !.pc = "done"]
    /\ UNCHANGED <<log, LoopFrame>>

\* Lines 468-474.
DashboardIterate ==
    /\ pc = "dashboard"
    /\ local.i <= Len(popular_symbols)
    /\ Iterate(WithSymbol(result[env.outcomes[local.i]], popular_symbols[local.i]), FALSE)

\* Line 476.
DashboardReturn ==
    /\ pc = "dashboard"
    /\ local.pc = "loop"
    /\ local.i > Len(popular_symbols)
    /\ response' = [kind |-> "page", template |-> "dashboard.html", body |-> local.out]
    /\ local' = [local EXCEPT !.pc = "done"]
    /\ UNCHANGED <<log, LoopFrame>>

NextLoop == OverviewIterate \/ OverviewReturn \/ DashboardIterate \/ DashboardReturn

SpecLoop == InitLoop /\ [][NextLoop]_vars

InLoop == pc \in {"api_market_overview", "dashboard"}

\* The positions before n whose analysis gave a result, in list order.
RECURSIVE SucceededBefore(_)
SucceededBefore(n) ==
    IF n <= 1 THEN <<>>
    ELSE IF result[env.outcomes[n - 1]].kind = "analysis"
         THEN Append(SucceededBefore(n - 1), n - 1)
         ELSE SucceededBefore(n - 1)

OutSymbols == [k \in 1..Len(local.out) |-> local.out[k].symbol]

\* C16: the symbols of the fixed list are analysed one after another in list
\* order; a symbol whose analysis returns an error record or raises is skipped
\* and every later symbol is still analysed; the output holds exactly the symbols
\* whose analysis succeeded, each at most once and in list order; the endpoint
\* returns its output and never an exception.
C16_LoopSkipsFailures ==
    InLoop =>
        /\ response # Raised
        /\ local.i \in 1..(Len(env.outcomes) + 1)
        /\ LET succeeded == SucceededBefore(local.i)
                symbols == SymbolsOf(pc)
                out == OutSymbols
           IN /\ out = [k \in 1..Len(succeeded) |-> symbols[succeeded[k]]]
              /\ \A k, l \in 1..Len(out) : k # l => out[k] # out[l]
        /\ local.pc = "done" =>
               /\ local.i = Len(env.outcomes) + 1
               /\ response.kind \in {"json", "page"}
               /\ response.body = local.out

\* The overview returned after a symbol raised, another gave an error record,
\* and a symbol after both is in the output.
C16_Witness ==
    /\ pc = "api_market_overview"
    /\ local.pc = "done"
    /\ response.kind = "json"
    /\ \E j, k \in 1..Len(env.outcomes) :
           /\ j < k
           /\ result[env.outcomes[j]].kind = "raised"
           /\ result[env.outcomes[k]].kind = "error"
           /\ \E m \in 1..Len(response.body) :
                  \E p \in (k + 1)..Len(global_symbols) :
                      response.body[m].symbol = global_symbols[p].symbol


(***************************************************************************)
(* search_stocks (src/app.py): the real-time search and the local search   *)
(* behind it.  A lookup of the real-time search asks the provider for the  *)
(* profile of one ticker; what it answers is drawn when the lookup is      *)
(* made.  A symbol is named by a number: 0 is the string 'None', and the   *)
(* symbols listed so far are 1, 2, ... in the order they were listed, so   *)
(* an answer either repeats a listed symbol or is the next new one.        *)
(***************************************************************************)
MinQuery == 2
ResponseLimit == 20
LocalLimit == 15
ResultLimit == 20
FuzzyBelow == 5
FuzzyQuery == 3
DatabaseSize == 81

exchanges ==
    <<"", ".NS", ".BO", ".L", ".TO", ".V", ".AX", ".T", ".HK", ".SS", ".SZ", ".PA",
      ".F", ".MI", ".AS", ".SW", ".ST", ".OL", ".CO", ".HE", ".IC", ".VI", ".WA",
      ".PR", ".BD", ".RG", ".TL", ".VS", ".RG", ".WA", ".RG", ".TL", ".VS">>

variations == <<"upper", "title", "capitalize">>

SymbolNone == 0

Take(seq, n) == [k \in 1..Min(Len(seq), n) |-> seq[k]]

\* The requests: the length of the stripped query and the number of entries of
\* the local database the query is found in.
SearchEnvs ==
    [query_len : 0..MaxQuery,
     matches : (0..MaxMatches) \cup {DatabaseSize}]

Listed(results) == {results[k].symbol : k \in 1..Len(results)}

NextSymbol(results) == Cardinality(Listed(results) \ {SymbolNone}) + 1

\* ticker.info of one lookup: an exception, a profile without a usable symbol
\* (empty, no 'symbol' key, an empty symbol or 'N/A'), or a profile with a symbol.
Lookups(results) ==
    {[kind |-> "raises", symbol |-> SymbolNone], [kind |-> "no_symbol", symbol |-> SymbolNone]}
        \cup {[kind |-> "info", symbol |-> y] :
                 y \in Listed(results) \cup {SymbolNone, NextSymbol(results)}}

Result(symbol) == [symbol |-> symbol, source |-> "yahoo_realtime"]

\* A variant that never finds the symbol among the results.
AlreadyListed_never(results, symbol) == FALSE

\* Lines 307 and 339.
AlreadyListed(results, symbol) == \E k \in 1..Len(results) : results[k].symbol = symbol

\* Lines 245-253: the direct lookup lists whatever symbol the profile has.
AfterDirect(results, o) ==
    IF o.kind = "info" THEN Append(results, Result(o.symbol)) ELSE results

\* Lines 303-315 and 336-347: a symbol other than 'None' that is not listed yet
\* is listed.
AfterLookup(results, o) ==
    IF o.kind = "info" /\ o.symbol # SymbolNone /\ ~AlreadyListed(results, o.symbol)
    THEN Append(results, Result(o.symbol))
    ELSE results

NoSearch == [pc |-> "start", i |-> 1, results |-> <<>>]

InitSearch ==
    /\ pc = "search_stocks"
    /\ analyzer = StockAnalyzer
    /\ env \in SearchEnvs
    /\ local = NoSearch
    /\ response = NoResponse
    /\ log = <<>>
    /\ provider = NoProvider
    /\ result = NoResult
    /\ IdleCall

SearchFrame == <<pc, analyzer, env, call>>

Json(body) == [kind |-> "json", body |-> body]

\* Lines 113-119: a short query is answered at once; otherwise the real-time
\* search is called.
SearchStart ==
    /\ pc = "search_stocks"
    /\ local.pc = "start"
    /\ IF env.query_len < MinQuery
       THEN /\ response' = Json(<<>>)
            /\ local' = [local EXCEPT !.pc = "done"]
            /\ log' = log
       ELSE /\ response' = response
            /\ local' = [local EXCEPT !.pc = "direct"]
            /\ log' = Append(log, "search_yahoo_finance_realtime")
    /\ UNCHANGED SearchFrame

\* Lines 238-255.
DirectLookup ==
    /\ pc = "search_stocks"
    /\ local.pc = "direct"
    /\ \E o \in Lookups(local.results) :
           /\ local' = [local EXCEPT !.pc = "exchanges", !.i = 1,
                                     !.results = AfterDirect(@, o)]
           /\ log' = IF o.kind = "raises"
                     THEN Append(log, "Direct ticker search error")
                     ELSE log
    /\ UNCHANGED <<response, SearchFrame>>

\* Lines 294-317: one pass of the loop over the exchanges, or its end.
ExchangeLookup ==
    /\ pc = "search_stocks"
    /\ local.pc = "exchanges"
    /\ IF local.i > Len(exchanges) \/ Len(local.results) >= ResultLimit
       THEN local' = [local EXCEPT !.pc = "fuzzy", !.i = 1]
       ELSE \E o \in Lookups(local.results) :
                local' = [local EXCEPT !.i = @ + 1, !.results = AfterLookup(@, o)]
    /\ UNCHANGED <<response, log, SearchFrame>>

\* Lines 320-351: the variations are tried for a long query with few results;
\* an exception ends them.
FuzzyLookup ==
    /\ pc = "search_stocks"
    /\ local.pc = "fuzzy"
    /\ IF \/ local.i = 1 /\ ~(Len(local.results) < FuzzyBelow /\ env.query_len > FuzzyQuery)
          \/ local.i > Len(variations)
          \/ Len(local.results) >= ResultLimit
       THEN /\ local' = [local EXCEPT !.pc = "returned"]
            /\ log' = log
       ELSE \E o \in Lookups(local.results) :
                IF o.kind = "raises"
                THEN /\ local' = [local EXCEPT !.pc = "returned"]
                     /\ log' = Append(log, "Fuzzy search error")
                ELSE /\ local' = [local EXCEPT !.i = @ + 1, !.results = AfterLookup(@, o)]
                     /\ log' = log
    /\ UNCHANGED <<response, SearchFrame>>

\* Lines 120-121 and 126-127: results of the real-time search are returned, cut
\* to the limit; without results the local search is called.
RealtimeReturned ==
    /\ pc = "search_stocks"
    /\ local.pc = "returned"
    /\ IF local.results # <<>>
       THEN /\ response' = Json(Take(local.results, ResponseLimit))
            /\ local' = [local EXCEPT !.pc = "done"]
            /\ log' = log
       ELSE /\ response' = response
            /\ local' = [local EXCEPT !.pc = "local"]
            /\ log' = Append(log, "search_local_database")
    /\ UNCHANGED SearchFrame

\* Lines 127-134 and 136-234: the entries of the database the query is found in,
\* in the order of the database and cut to the limit, or the empty list.
LocalSearch ==
    /\ pc = "search_stocks"
    /\ local.pc = "local"
    /\ LET local_results == [k \in 1..env.matches |-> [match |-> k, source |-> "local"]]
       IN response' = Json(Take(local_results, LocalLimit))
    /\ local' = [local EXCEPT !.pc = "done"]
    /\ UNCHANGED <<log, SearchFrame>>

NextSearch ==
    \/ SearchStart
    \/ DirectLookup
    \/ ExchangeLookup
    \/ FuzzyLookup
    \/ RealtimeReturned
    \/ LocalSearch

SpecSearch == InitSearch /\ [][NextSearch]_vars

Calls ==
    SelectSeq(log, LAMBDA e : e \in {"search_yahoo_finance_realtime", "search_local_database"})

\* C17: a query shorter than 2 characters is answered with the empty list and
\* no search is called; otherwise the real-time search is called first and the
\* local search only when the real-time search gave no results; no exception
\* leaves the endpoint; the response holds at most 20 results; and the real-time
\* search never lists a symbol twice.
C17_SearchOrder ==
    pc = "search_stocks" =>
        /\ response # Raised
        /\ env.query_len < MinQuery =>
               /\ Calls = <<>>
               /\ local.pc = "done" => response = Json(<<>>)
        /\ Calls \in {<<>>, <<"search_yahoo_finance_realtime">>,
                      <<"search_yahoo_finance_realtime", "search_local_database">>}
        /\ (env.query_len >= MinQuery /\ local.pc # "start") => Calls # <<>>
        /\ Len(Calls) = 2 => local.results = <<>>
        /\ \A k, l \in 1..Len(local.results) :
               k # l => local.results[k].symbol # local.results[l].symbol
        /\ Len(local.results) <= ResultLimit
        /\ local.pc = "done" =>
               /\ response.kind = "json"
               /\ Len(response.body) <= ResponseLimit
               /\ local.results # <<>> => response.body = Take(local.results, ResponseLimit)

\* The real-time search listed the limit of symbols, the first of them the
\* string 'None' that only the direct lookup lists, and they were returned
\* without a call of the local search.
C17_Witness ==
    /\ pc = "search_stocks"
    /\ local.pc = "done"
    /\ env.query_len >= MinQuery
    /\ Calls = <<"search_yahoo_finance_realtime">>
    /\ Len(response.body) = ResponseLimit
    /\ response.body[1].symbol = SymbolNone


====
